---- MODULE Spec2Model ----
(***************************************************************************)
(* Model of the mortgage finance engine of the purchase calculator:        *)
(* the qualification and insurance step, the payment calculator and the    *)
(* amortization schedule generator of calculateMortgage, in the four       *)
(* calculator components of the repository.                                *)
(*                                                                         *)
(* JavaScript numbers are IEEE doubles.  Two abstractions are used:        *)
(*  - the qualification step (down payment, percentages, insurance) is     *)
(*    computed in exact rational arithmetic extended with NaN and          *)
(*    +/-Infinity (records [k, n, d]);                                     *)
(*  - the payment formula and the payment-by-payment simulation are        *)
(*    computed in fixed point, every product and quotient rounded to the   *)
(*    nearest unit, in the same records with d = 1.                        *)
(***************************************************************************)
EXTENDS Integers, Naturals, Sequences, FiniteSets, TLC

(***************************************************************************)
(* Integer helpers                                                         *)
(***************************************************************************)
Abs(x) == IF x < 0 THEN -x ELSE x

Sign(x) == IF x < 0 THEN -1 ELSE IF x > 0 THEN 1 ELSE 0

RECURSIVE GCD(_, _)
GCD(a, b) == IF b = 0 THEN a ELSE GCD(b, a % b)

(***************************************************************************)
(* Exact rational model of a double: [k |-> "fin", n, d] is n/d in lowest  *)
(* terms with d > 0; "nan", "pinf" and "ninf" are NaN and the infinities.  *)
(***************************************************************************)
RNaN == [k |-> "nan", n |-> 0, d |-> 1]

RInf(s) == [k |-> IF s < 0 THEN "ninf" ELSE "pinf", n |-> 0, d |-> 1]

Rat(num, den) ==
    LET g == GCD(Abs(num), Abs(den))
        s == IF den < 0 THEN -1 ELSE 1
    IN  [k |-> "fin", n |-> s * (num \div g), d |-> s * (den \div g)]

R(x) == [k |-> "fin", n |-> x, d |-> 1]

RIsFin(a) == a.k = "fin"

RIsNaN(a) == a.k = "nan"

RSgn(a) == IF a.k = "pinf" THEN 1 ELSE IF a.k = "ninf" THEN -1 ELSE Sign(a.n)

RNeg(a) == IF a.k = "fin" THEN [a EXCEPT !.n = -a.n]
           ELSE IF a.k = "nan" THEN RNaN ELSE RInf(-RSgn(a))

RAdd(a, b) ==
    IF a.k = "nan" \/ b.k = "nan" THEN RNaN
    ELSE IF a.k = "fin" /\ b.k = "fin" THEN
        LET g == GCD(a.d, b.d)
        IN  Rat(a.n * (b.d \div g) + b.n * (a.d \div g), (a.d \div g) * b.d)
    ELSE IF a.k = "fin" THEN b
    ELSE IF b.k = "fin" THEN a
    ELSE IF a.k = b.k THEN a ELSE RNaN

RSub(a, b) == RAdd(a, RNeg(b))

RMul(a, b) ==
    IF a.k = "nan" \/ b.k = "nan" THEN RNaN
    ELSE IF a.k = "fin" /\ b.k = "fin" THEN
        LET g1 == GCD(Abs(a.n), b.d)
            g2 == GCD(Abs(b.n), a.d)
        IN  Rat((a.n \div g1) * (b.n \div g2), (a.d \div g2) * (b.d \div g1))
    ELSE IF RSgn(a) = 0 \/ RSgn(b) = 0 THEN RNaN
    ELSE RInf(RSgn(a) * RSgn(b))

RDiv(a, b) ==
    IF a.k = "nan" \/ b.k = "nan" THEN RNaN
    ELSE IF a.k = "fin" /\ b.k = "fin" THEN
        IF b.n = 0 THEN (IF a.n = 0 THEN RNaN ELSE RInf(a.n))
        ELSE RMul(a, Rat(b.d, b.n))
    ELSE IF a.k = "fin" THEN R(0)
    ELSE IF b.k = "fin" THEN RInf(RSgn(a) * (IF b.n < 0 THEN -1 ELSE 1))
    ELSE RNaN

\* a < b as JavaScript evaluates it: false when either side is NaN.
RLt(a, b) ==
    IF a.k = "nan" \/ b.k = "nan" THEN FALSE
    ELSE IF a.k = "fin" /\ b.k = "fin" THEN a.n * b.d < b.n * a.d
    ELSE IF a.k = b.k THEN FALSE
    ELSE a.k = "ninf" \/ b.k = "pinf"

RLe(a, b) ==
    IF a.k = "nan" \/ b.k = "nan" THEN FALSE
    ELSE a = b \/ RLt(a, b)

RGt(a, b) == RLt(b, a)

RGe(a, b) == RLe(b, a)

\* Math.max(a, b): NaN when either argument is NaN.
RMax(a, b) ==
    IF a.k = "nan" \/ b.k = "nan" THEN RNaN
    ELSE IF RLt(a, b) THEN b ELSE a

RMin(a, b) ==
    IF a.k = "nan" \/ b.k = "nan" THEN RNaN
    ELSE IF RLt(b, a) THEN b ELSE a

\* Math.round(a): the nearest integer, halves rounded up.
RRound(a) ==
    IF a.k # "fin" THEN a
    ELSE R((2 * a.n + a.d) \div (2 * a.d))

(***************************************************************************)
(* Fixed-point model of a double, used by the payment formula and the      *)
(* schedule simulation: a number is a whole count of units, [k |-> "fin",  *)
(* n |-> units, d |-> 1].  Amounts of money count units of 10^-MoneyDigits *)
(* dollars; rates and growth factors count units of 10^-FactorDigits.      *)
(* Sums, differences, comparisons, Math.min and Math.max are exact (the    *)
(* rational operators above); every product and quotient is rounded to     *)
(* the nearest unit.                                                       *)
(***************************************************************************)
MoneyDigits == 4

FactorDigits == 7

MoneyScale == 10 ^ MoneyDigits

FactorScale == 10 ^ FactorDigits

\* The number of values of one digit of the multiplier in MulDivQR: the
\* largest base whose partial products stay below 2^31.
ChunkBase(c) == IF (2 ^ 30) \div c < 2 THEN 2 ELSE (2 ^ 30) \div c

\* <<q, r>> with a * b = q * c + r and 0 <= r < c, for a, b >= 0 and c > 0,
\* computed digit by digit of b so that no intermediate exceeds 32 bits.
RECURSIVE MulDivQR(_, _, _)
MulDivQR(a, b, c) ==
    IF b = 0 THEN <<0, 0>>
    ELSE
        LET h == MulDivQR(a, b \div ChunkBase(c), c)
            digit == b % ChunkBase(c)
            t == h[2] * ChunkBase(c) + (a % c) * digit
        IN  <<h[1] * ChunkBase(c) + (a \div c) * digit + t \div c, t % c>>

\* a * b / c rounded to the nearest integer (halves away from zero), c # 0.
MulDiv(a, b, c) ==
    LET x == IF Abs(a) >= Abs(b) THEN Abs(a) ELSE Abs(b)
        y == IF Abs(a) >= Abs(b) THEN Abs(b) ELSE Abs(a)
        qr == MulDivQR(x, y, Abs(c))
        q == qr[1] + (IF 2 * qr[2] >= Abs(c) THEN 1 ELSE 0)
    IN  Sign(a) * Sign(b) * Sign(c) * q

\* a * b for counts of units, b (or a) counted in units of 1/scale.
XMul(a, b, scale) ==
    IF a.k = "fin" /\ b.k = "fin" THEN R(MulDiv(a.n, b.n, scale))
    ELSE RMul(a, b)

\* a / b for counts of units, the quotient counted in units of 1/scale.
XDiv(a, b, scale) ==
    IF a.k = "fin" /\ b.k = "fin" /\ b.n # 0 THEN R(MulDiv(a.n, scale, b.n))
    ELSE RDiv(a, b)

\* Math.pow(base, exponent) for a factor and a natural exponent.
RECURSIVE XPow(_, _)
XPow(base, exponent) ==
    IF exponent = 0 THEN R(FactorScale)
    ELSE
        LET h == XPow(base, exponent \div 2)
            sq == XMul(h, h, FactorScale)
        IN  IF exponent % 2 = 1 THEN XMul(sq, base, FactorScale) ELSE sq

\* A whole number of dollars, and a rational number of dollars, as money.
Dollars(x) == R(x * MoneyScale)

ToMoney(a) == IF a.k = "fin" THEN R(MulDiv(a.n, MoneyScale, a.d)) ELSE a

\* 1 and p / 100 as factors.
One == R(FactorScale)

Percent(p) == R(p * (FactorScale \div 100))

(***************************************************************************)
(* The calculator components.  "Responsive" is                             *)
(* ResponsiveMortgageCalculator (src/components), "Purchase" is            *)
(* PurchaseCalculator (part_000), "MortgageTS" is the typed                *)
(* MortgageCalculator (part_001) and "MortgageJS" the untyped one          *)
(* (part_002).                                                             *)
(***************************************************************************)
Variants == {"Responsive", "Purchase", "MortgageTS", "MortgageJS"}

\* variant: the component; inputs: its inputs state; pc: the position of
\* the effect and of calculateMortgage; qual: the qualification results;
\* paymentAmount: the periodic payment; run: which of the two
\* generateAmortizationSchedule calls is executing; gen: that call's local
\* variables; standardSchedule and schedule: the two calls' results;
\* closing: the closing costs computed by calculateMortgage; results: the
\* results state; kinds: for the text fields of inputs, whether the stored
\* value is a number, the empty string or another string; mountResults: the
\* results of the calculation run when the component mounted (a history
\* variable); events: the number of change and blur events handled.
VARIABLES variant, inputs, pc, qual, paymentAmount, run, gen, standardSchedule, schedule,
          closing, results, kinds, mountResults, events

vars == <<variant, inputs, pc, qual, paymentAmount, run, gen, standardSchedule, schedule, closing, results, kinds, mountResults, events>>

(***************************************************************************)
(* Qualification and insurance: the first part of calculateMortgage.       *)
(***************************************************************************)
\* The supplied down payment as an amount.
DownPaymentAmount(in) ==
    IF in.downPaymentType = "amount" THEN in.downPayment
    ELSE RDiv(RMul(R(in.purchasePrice), in.downPayment), R(100))

\* Responsive, Purchase, MortgageJS: the minimum as a percentage of the price.
MinimumDownPaymentPercent(purchasePrice, foreignBuyer) ==
    IF foreignBuyer THEN R(35)
    ELSE IF purchasePrice <= 500000 THEN R(5)
    ELSE IF purchasePrice <= 1000000 THEN
        RMul(RDiv(RAdd(RMul(R(purchasePrice - 500000), Rat(1, 10)), R(25000)),
                  R(purchasePrice)),
             R(100))
    ELSE R(20)

MinimumDownPayment(purchasePrice, foreignBuyer) ==
    RMul(RDiv(MinimumDownPaymentPercent(purchasePrice, foreignBuyer), R(100)),
         R(purchasePrice))

\* MortgageTS: the minimum as an amount, rounded to whole dollars.
MinimumDownPaymentRequired(purchasePrice, foreignBuyer) ==
    LET unrounded ==
            IF foreignBuyer THEN RMul(R(purchasePrice), Rat(35, 100))
            ELSE IF purchasePrice <= 500000 THEN RMul(R(purchasePrice), Rat(5, 100))
            ELSE IF purchasePrice > 500000 /\ purchasePrice <= 1000000 THEN
                RAdd(RMul(R(500000), Rat(5, 100)),
                     RMul(R(purchasePrice - 500000), Rat(10, 100)))
            ELSE RMul(R(purchasePrice), Rat(20, 100))
    IN  RMax(R(0), RRound(unrounded))

ActualDownPayment(v, in) ==
    RMax(DownPaymentAmount(in),
         IF v = "MortgageTS"
         THEN MinimumDownPaymentRequired(in.purchasePrice, in.foreignBuyer)
         ELSE MinimumDownPayment(in.purchasePrice, in.foreignBuyer))

\* Only MortgageTS guards the division by purchasePrice.
ActualDownPaymentPercent(v, actualDownPayment, purchasePrice) ==
    IF v = "MortgageTS" /\ ~(purchasePrice > 0) THEN R(0)
    ELSE RMul(RDiv(actualDownPayment, R(purchasePrice)), R(100))

\* InsuranceRate with inclusive bracket bounds (a boundary takes the higher rate).
InsuranceRateInclusive(loanToValue) ==
    IF RGe(loanToValue, R(95)) THEN Rat(40, 10)
    ELSE IF RGe(loanToValue, R(90)) THEN Rat(31, 10)
    ELSE IF RGe(loanToValue, R(85)) THEN Rat(28, 10)
    ELSE IF RGe(loanToValue, R(80)) THEN Rat(24, 10)
    ELSE R(0)

\* The premium rate in percent for a loan-to-value ratio.
InsuranceRate(loanToValue) ==
    IF RGt(loanToValue, R(95)) THEN Rat(40, 10)
    ELSE IF RGt(loanToValue, R(90)) THEN Rat(31, 10)
    ELSE IF RGt(loanToValue, R(85)) THEN Rat(28, 10)
    ELSE IF RGt(loanToValue, R(80)) THEN Rat(24, 10)
    ELSE R(0)

MortgageInsurance(actualDownPaymentPercent, purchasePrice, actualDownPayment) ==
    IF RLt(actualDownPaymentPercent, R(20)) THEN
        LET loanToValue == RSub(R(100), actualDownPaymentPercent)
            baseAmount == RSub(R(purchasePrice), actualDownPayment)
        IN  RMul(baseAmount, RDiv(InsuranceRate(loanToValue), R(100)))
    ELSE R(0)

\* The record of qualification results of one calculateMortgage call.
Qualification(v, in) ==
    LET actual == ActualDownPayment(v, in)
        percent == ActualDownPaymentPercent(v, actual, in.purchasePrice)
        insurance == MortgageInsurance(percent, in.purchasePrice, actual)
        mortgageAmount == RSub(R(in.purchasePrice), actual)
    IN  [actualDownPayment |-> actual,
         downPaymentPercent |-> percent,
         mortgageInsurance |-> insurance,
         mortgageAmount |-> mortgageAmount,
         totalMortgage |-> RAdd(mortgageAmount, insurance)]

NoQualification ==
    [actualDownPayment |-> R(0), downPaymentPercent |-> R(0),
     mortgageInsurance |-> R(0), mortgageAmount |-> R(0), totalMortgage |-> R(0)]

(***************************************************************************)
(* Payment calculator.                                                     *)
(***************************************************************************)
PaymentsPerYear(paymentFrequency) ==
    CASE paymentFrequency = "monthly" -> 12
      [] paymentFrequency = "biweekly" -> 26
      [] paymentFrequency = "accelerated_biweekly" -> 26
      [] paymentFrequency = "weekly" -> 52
      [] paymentFrequency = "accelerated_weekly" -> 52
      [] OTHER -> 12

\* annualInterestRate / paymentsPerYear, annualInterestRate = interestRate / 100.
InterestRatePerPayment(interestRate, paymentsPerYear) ==
    XDiv(Percent(interestRate), R(paymentsPerYear), 1)

\* A payment that covers the first period's interest only.
AnnuityPaymentInterestOnly(principal, i, n) == XMul(principal, i, FactorScale)

\* principal * (i * (1 + i)^n) / ((1 + i)^n - 1), evaluated as written.
AnnuityPayment(principal, i, n) ==
    XDiv(XMul(principal, XMul(i, XPow(RAdd(One, i), n), FactorScale), FactorScale),
         RSub(XPow(RAdd(One, i), n), One),
         FactorScale)

\* The payment before the accelerated adjustment: guarded at rate 0.
BasePaymentAmount(principal, interestRate, amortizationYears, paymentsPerYear) ==
    IF interestRate = 0
    THEN XDiv(principal, R(amortizationYears * paymentsPerYear), 1)
    ELSE AnnuityPayment(principal,
                        InterestRatePerPayment(interestRate, paymentsPerYear),
                        amortizationYears * paymentsPerYear)

\* The monthly payment the accelerated frequencies divide: not guarded at rate 0.
MonthlyEquivalent(principal, interestRate, amortizationYears) ==
    AnnuityPayment(principal, InterestRatePerPayment(interestRate, 12),
                   amortizationYears * 12)

\* Responsive, Purchase, MortgageJS: the payment computed inline.
InlinePaymentAmount(principal, in) ==
    IF in.paymentFrequency = "accelerated_biweekly" THEN
        XDiv(MonthlyEquivalent(principal, in.interestRate, in.amortizationPeriod), R(2), 1)
    ELSE IF in.paymentFrequency = "accelerated_weekly" THEN
        XDiv(MonthlyEquivalent(principal, in.interestRate, in.amortizationPeriod), R(4), 1)
    ELSE BasePaymentAmount(principal, in.interestRate, in.amortizationPeriod,
                           PaymentsPerYear(in.paymentFrequency))

\* MortgageTS: the flag calculateMortgage passes to calculatePaymentAmount.
IsAccelerated(paymentFrequency) ==
    \/ paymentFrequency = "accelerated_biweekly"
    \/ paymentFrequency = "accelereated_weekly"

\* MortgageTS: calculatePaymentAmount.
CalculatePaymentAmount(principal, interestRate, amortizationYears, paymentsPerYear, isAccelerated) ==
    IF isAccelerated /\ paymentsPerYear = 26 THEN
        XDiv(MonthlyEquivalent(principal, interestRate, amortizationYears), R(2), 1)
    ELSE IF isAccelerated /\ paymentsPerYear = 52 THEN
        XDiv(MonthlyEquivalent(principal, interestRate, amortizationYears), R(4), 1)
    ELSE BasePaymentAmount(principal, interestRate, amortizationYears, paymentsPerYear)

PaymentAmount(v, principal, in) ==
    IF v = "MortgageTS"
    THEN CalculatePaymentAmount(principal, in.interestRate, in.amortizationPeriod,
                                PaymentsPerYear(in.paymentFrequency),
                                IsAccelerated(in.paymentFrequency))
    ELSE InlinePaymentAmount(principal, in)

(***************************************************************************)
(* Amortization schedule generator.                                        *)
(***************************************************************************)
\* The arguments calculateMortgage passes: zero prepayments for the standard
\* schedule, the inputs' prepayments for the second call.
GenArgs(r, in, totalMortgage, payment) ==
    [principal |-> totalMortgage,
     annualInterestRate |-> in.interestRate,
     amortizationYears |-> in.amortizationPeriod,
     paymentAmount |-> payment,
     paymentsPerYear |-> PaymentsPerYear(in.paymentFrequency),
     term |-> in.term,
     extraPayment |-> IF r = "standard" THEN 0 ELSE in.extraPayment,
     paymentIncrease |-> IF r = "standard" THEN 0 ELSE in.paymentIncrease,
     annualPrepayment |-> IF r = "standard" THEN 0 ELSE in.annualPrepayment]

\* The generator's locals on entry.  paymentsApplied is a history variable:
\* the number of payments the loop body has applied to the balance.
GenStart(principal) ==
    [balance |-> principal,
     totalInterestPaid |-> R(0),
     yearlySchedule |-> <<>>,
     totalInterestPaidOverTerm |-> R(0),
     balanceAtEndOfTerm |-> R(0),
     lastPaymentNumber |-> 0,
     year |-> 1,
     i |-> 1,
     yearlyPrincipalPaid |-> R(0),
     yearlyInterestPaid |-> R(0),
     yearlyExtraPayments |-> R(0),
     at |-> "payment",
     paymentsApplied |-> 0]

NoGen == GenStart(R(0))

NoSchedule ==
    [yearlySchedule |-> <<>>,
     totalInterestPaid |-> R(0),
     totalInterestPaidOverTerm |-> R(0),
     balanceAtEndOfTerm |-> R(0),
     effectiveAmortizationYears |-> R(0)]

\* The payment of a year, with the payment increase: flat in Responsive,
\* Purchase and MortgageJS, compounding yearly in MortgageTS.
AdjustedPayment(v, payment, paymentIncrease, year) ==
    IF v = "MortgageTS"
    THEN XMul(payment, XPow(RAdd(One, Percent(paymentIncrease)), year - 1), FactorScale)
    ELSE XMul(payment, RAdd(One, Percent(paymentIncrease)), FactorScale)

InterestForPayment(balance, interestRatePerPayment) ==
    XMul(balance, interestRatePerPayment, FactorScale)

PrincipalForPayment(adjustedPayment, interestForPayment, balance) ==
    RMin(RSub(adjustedPayment, interestForPayment), balance)

ExtraPrincipalPaid(extraPayment, balance, principalForPayment) ==
    IF extraPayment > 0
    THEN RMin(Dollars(extraPayment), RSub(balance, principalForPayment))
    ELSE R(0)

\* lastPaymentNumber++ at the top of the loop body, before the break test.
CountPayment(lastPaymentNumber) == lastPaymentNumber + 1

\* One iteration of the inner loop.
PaymentBody(v, a, g) ==
    IF RLe(g.balance, R(0)) THEN
        [g EXCEPT !.lastPaymentNumber = CountPayment(g.lastPaymentNumber),
                  !.at = "yearEnd"]
    ELSE
        LET interest == InterestForPayment(g.balance,
                            InterestRatePerPayment(a.annualInterestRate, a.paymentsPerYear))
            base == PrincipalForPayment(
                        AdjustedPayment(v, a.paymentAmount, a.paymentIncrease, g.year),
                        interest, g.balance)
            extra == ExtraPrincipalPaid(a.extraPayment, g.balance, base)
            principalForPayment == RAdd(base, extra)
            balance == RSub(g.balance, principalForPayment)
            totalInterestPaid == RAdd(g.totalInterestPaid, interest)
            endOfTerm == g.year = a.term /\ g.i = a.paymentsPerYear
        IN  [g EXCEPT
                !.lastPaymentNumber = CountPayment(g.lastPaymentNumber),
                !.paymentsApplied = g.paymentsApplied + 1,
                !.balance = balance,
                !.yearlyExtraPayments = RAdd(g.yearlyExtraPayments, extra),
                !.yearlyPrincipalPaid = RAdd(g.yearlyPrincipalPaid, principalForPayment),
                !.yearlyInterestPaid = RAdd(g.yearlyInterestPaid, interest),
                !.totalInterestPaid = totalInterestPaid,
                !.balanceAtEndOfTerm =
                    IF endOfTerm THEN balance ELSE g.balanceAtEndOfTerm,
                !.totalInterestPaidOverTerm =
                    IF endOfTerm THEN totalInterestPaid ELSE g.totalInterestPaidOverTerm,
                !.i = g.i + 1,
                !.at = IF g.i = a.paymentsPerYear THEN "yearEnd" ELSE "payment"]

AnnualPrepaymentAmount(principal, annualPrepayment, balance) ==
    IF annualPrepayment > 0 /\ RGt(balance, R(0))
    THEN RMin(XMul(principal, Percent(annualPrepayment), FactorScale), balance)
    ELSE R(0)

\* startingBalance of the row pushed at the end of a year.
StartingBalance(v, principal, yearlyPrincipalPaid, yearlyInterestPaid, balance) ==
    IF v = "MortgageTS" THEN balance
    ELSE RAdd(RAdd(RSub(principal, yearlyPrincipalPaid), yearlyInterestPaid), balance)

\* LastYear without the break on a balance that is paid off.
LastYearByCountOnly(balance, year, amortizationYears) == year = amortizationYears

\* The outer loop ends after this year: break on balance <= 0, or the loop
\* condition year <= amortizationYears fails for the next year.
LastYear(balance, year, amortizationYears) ==
    RLe(balance, R(0)) \/ year = amortizationYears

\* The end of one iteration of the outer loop: annual prepayment, the row, and
\* the test that ends the loop.
YearEndBody(v, a, g) ==
    LET prepay == AnnualPrepaymentAmount(a.principal, a.annualPrepayment, g.balance)
        balance == RSub(g.balance, prepay)
        yearlyPrincipalPaid == RAdd(g.yearlyPrincipalPaid, prepay)
        yearlyExtraPayments == RAdd(g.yearlyExtraPayments, prepay)
        row == [year |-> g.year,
                startingBalance |-> StartingBalance(v, a.principal, yearlyPrincipalPaid,
                                                    g.yearlyInterestPaid, balance),
                principalPaid |-> yearlyPrincipalPaid,
                interestPaid |-> g.yearlyInterestPaid,
                extraPayments |-> yearlyExtraPayments,
                endingBalance |-> balance]
        last == LastYear(balance, g.year, a.amortizationYears)
    IN  [g EXCEPT
            !.balance = balance,
            !.yearlySchedule = Append(g.yearlySchedule, row),
            !.yearlyPrincipalPaid = IF last THEN yearlyPrincipalPaid ELSE R(0),
            !.yearlyInterestPaid = IF last THEN g.yearlyInterestPaid ELSE R(0),
            !.yearlyExtraPayments = IF last THEN yearlyExtraPayments ELSE R(0),
            !.year = IF last THEN g.year ELSE g.year + 1,
            !.i = IF last THEN g.i ELSE 1,
            !.at = IF last THEN "returned" ELSE "payment"]

EffectiveAmortizationYears(lastPaymentNumber, paymentsPerYear) ==
    Rat(lastPaymentNumber, paymentsPerYear)

\* The ScheduleResult returned.
GenResult(a, g) ==
    [yearlySchedule |-> g.yearlySchedule,
     totalInterestPaid |-> g.totalInterestPaid,
     totalInterestPaidOverTerm |-> g.totalInterestPaidOverTerm,
     balanceAtEndOfTerm |-> g.balanceAtEndOfTerm,
     effectiveAmortizationYears |->
        EffectiveAmortizationYears(g.lastPaymentNumber, a.paymentsPerYear)]

(***************************************************************************)
(* Closing costs: land transfer tax, foreign buyer tax, PST on the         *)
(* insurance premium and the fees, in exact rational arithmetic.           *)
(***************************************************************************)
\* Responsive, Purchase: calculateForeignBuyerTax.
CalculateForeignBuyerTax(propertyValue, province, municipality, isForeignBuyer) ==
    IF ~isForeignBuyer THEN R(0)
    ELSE LET taxRate ==
                 IF province = "BC"
                 THEN (IF municipality \in {"none"} THEN Rat(20, 100) ELSE R(0))
                 ELSE IF province = "ON"
                 THEN (IF municipality \in {"none", "toronto"} THEN Rat(25, 100) ELSE R(0))
                 ELSE IF province = "QC"
                 THEN (IF municipality = "montreal" THEN Rat(333, 10000) ELSE R(0))
                 ELSE R(0)
         IN  RMul(R(propertyValue), taxRate)

\* MortgageTS, MortgageJS: the foreign buyer tax computed inline.
InlineForeignBuyerTax(purchasePrice, province, foreignBuyer) ==
    IF foreignBuyer
    THEN RMul(R(purchasePrice), IF province = "ON" THEN Rat(25, 100) ELSE Rat(20, 100))
    ELSE R(0)

ForeignBuyerTax(v, in) ==
    IF v \in {"Responsive", "Purchase"}
    THEN CalculateForeignBuyerTax(in.purchasePrice, in.province, in.municipality,
                                  in.foreignBuyer)
    ELSE InlineForeignBuyerTax(in.purchasePrice, in.province, in.foreignBuyer)

\* base + (propertyValue - over) * rate: one branch of a tax table.
Tier(base, propertyValue, over, rate) ==
    RAdd(R(base), RMul(R(propertyValue - over), rate))

\* OntarioTable whose last bracket is open-ended at 2%.
OntarioTableNoTopBracket(propertyValue) ==
    IF propertyValue <= 55000 THEN RMul(R(propertyValue), Rat(5, 1000))
    ELSE IF propertyValue <= 250000 THEN Tier(275, propertyValue, 55000, Rat(1, 100))
    ELSE IF propertyValue <= 400000 THEN Tier(2225, propertyValue, 250000, Rat(15, 1000))
    ELSE Tier(4475, propertyValue, 400000, Rat(2, 100))

\* The Ontario table, used for the province and again for Toronto.
OntarioTable(propertyValue) ==
    IF propertyValue <= 55000 THEN RMul(R(propertyValue), Rat(5, 1000))
    ELSE IF propertyValue <= 250000 THEN Tier(275, propertyValue, 55000, Rat(1, 100))
    ELSE IF propertyValue <= 400000 THEN Tier(2225, propertyValue, 250000, Rat(15, 1000))
    ELSE IF propertyValue <= 2000000 THEN Tier(4475, propertyValue, 400000, Rat(2, 100))
    ELSE Tier(36475, propertyValue, 2000000, Rat(25, 1000))

\* The rebate of a first-time buyer: Math.max(0, tax - Math.min(cap, tax)).
AfterRebate(tax, cap, firstTimeBuyer) ==
    IF firstTimeBuyer THEN RMax(R(0), RSub(tax, RMin(R(cap), tax))) ELSE tax

\* Responsive, Purchase: the provincial part of calculateLandTransferTax.
ProvincialTax(propertyValue, province, firstTimeBuyer) ==
    IF province = "ON" THEN AfterRebate(OntarioTable(propertyValue), 4000, firstTimeBuyer)
    ELSE IF province = "BC" THEN
        LET tax == IF propertyValue <= 200000 THEN RMul(R(propertyValue), Rat(1, 100))
                   ELSE IF propertyValue <= 2000000
                   THEN Tier(2000, propertyValue, 200000, Rat(2, 100))
                   ELSE IF propertyValue <= 3000000
                   THEN Tier(38000, propertyValue, 2000000, Rat(3, 100))
                   ELSE Tier(68000, propertyValue, 3000000, Rat(5, 100))
        IN  IF firstTimeBuyer /\ propertyValue <= 500000 THEN R(0)
            ELSE IF firstTimeBuyer /\ propertyValue <= 525000
            THEN RSub(tax, RMul(Rat(525000 - propertyValue, 25000), tax))
            ELSE tax
    ELSE IF province = "QC" THEN
        IF propertyValue <= 50000 THEN RMul(R(propertyValue), Rat(5, 1000))
        ELSE IF propertyValue <= 250000 THEN Tier(250, propertyValue, 50000, Rat(1, 100))
        ELSE Tier(2250, propertyValue, 250000, Rat(15, 1000))
    ELSE IF province = "AB" THEN R(0)
    ELSE RMul(R(propertyValue), Rat(15, 1000))

\* MunicipalTax decided by the municipality key alone.
MunicipalTaxByKeyOnly(propertyValue, province, municipality, firstTimeBuyer) ==
    IF municipality = "toronto"
    THEN AfterRebate(OntarioTable(propertyValue), 4475, firstTimeBuyer)
    ELSE IF municipality \in {"montreal", "halifax"}
    THEN RMul(R(propertyValue), Rat(15, 1000))
    ELSE R(0)

\* Responsive, Purchase: the municipal part of calculateLandTransferTax.
MunicipalTax(propertyValue, province, municipality, firstTimeBuyer) ==
    IF province = "ON" /\ municipality = "toronto"
    THEN AfterRebate(OntarioTable(propertyValue), 4475, firstTimeBuyer)
    ELSE IF province = "QC" /\ municipality = "montreal" THEN
        IF propertyValue <= 50000 THEN RMul(R(propertyValue), Rat(5, 1000))
        ELSE IF propertyValue <= 250000 THEN Tier(250, propertyValue, 50000, Rat(1, 100))
        ELSE IF propertyValue <= 500000 THEN Tier(2250, propertyValue, 250000, Rat(15, 1000))
        ELSE IF propertyValue <= 1000000 THEN Tier(6000, propertyValue, 500000, Rat(2, 100))
        ELSE Tier(16000, propertyValue, 1000000, Rat(25, 1000))
    ELSE IF province = "NS" /\ municipality = "halifax"
    THEN RMul(R(propertyValue), Rat(15, 1000))
    ELSE R(0)

\* Responsive, Purchase: calculateLandTransferTax.
CalculateLandTransferTax(propertyValue, province, municipality, firstTimeBuyer) ==
    LET provincialTax == ProvincialTax(propertyValue, province, firstTimeBuyer)
        municipalTax == MunicipalTax(propertyValue, province, municipality, firstTimeBuyer)
    IN  [provincial |-> provincialTax,
         municipal |-> municipalTax,
         total |-> RAdd(provincialTax, municipalTax)]

\* MortgageTS: the brackets of its Ontario calculation.
TieredBrackets ==
    <<[max |-> R(55000), rate |-> Rat(5, 1000)],
      [max |-> R(250000), rate |-> Rat(1, 100)],
      [max |-> R(400000), rate |-> Rat(15, 1000)],
      [max |-> RInf(1), rate |-> Rat(2, 100)]>>

\* MortgageTS: the loop over the brackets, from bracket b on.
RECURSIVE TieredTax(_, _, _)
TieredTax(b, tax, remaining) ==
    IF b > Len(TieredBrackets) \/ RLe(remaining, R(0)) THEN tax
    ELSE LET taxable == RMin(remaining, TieredBrackets[b].max)
         IN  TieredTax(b + 1, RAdd(tax, RMul(taxable, TieredBrackets[b].rate)),
                       RSub(remaining, taxable))

\* MortgageTS: its calculateLandTransferTax(price, province).
TieredLandTransferTax(price, province) ==
    IF province = "ON" THEN TieredTax(1, R(0), R(price))
    ELSE RMul(R(price), Rat(15, 1000))

\* MortgageJS: the simplified land transfer tax.
SimplifiedLandTransferTax(purchasePrice, province) ==
    RMul(R(purchasePrice), IF province = "ON" THEN Rat(2, 100) ELSE Rat(15, 1000))

\* MortgageTS, MortgageJS: landTransferTaxRebate.
LandTransferTaxRebate(firstTimeBuyer, landTransferTax) ==
    IF firstTimeBuyer THEN RMin(R(4000), landTransferTax) ELSE R(0)

\* The land transfer tax result of a variant: for MortgageTS and MortgageJS,
\* which compute one amount and a rebate, the amount after the rebate is the
\* provincial part and the total.
LandTransferTax(v, in) ==
    IF v \in {"Responsive", "Purchase"}
    THEN CalculateLandTransferTax(in.purchasePrice, in.province, in.municipality,
                                  in.firstTimeBuyer)
    ELSE LET tax == IF v = "MortgageTS"
                    THEN TieredLandTransferTax(in.purchasePrice, in.province)
                    ELSE SimplifiedLandTransferTax(in.purchasePrice, in.province)
             net == RSub(tax, LandTransferTaxRebate(in.firstTimeBuyer, tax))
         IN  [provincial |-> net, municipal |-> R(0), total |-> net]

\* pstOnInsurance: MortgageTS has a rate per province, MortgageJS none.
PstOnInsurance(v, province, mortgageInsurance) ==
    IF v \in {"Responsive", "Purchase"} THEN
        IF province = "ON" \/ province = "QC"
        THEN RMul(mortgageInsurance, Rat(8, 100)) ELSE R(0)
    ELSE IF v = "MortgageTS" THEN
        IF RGt(mortgageInsurance, R(0))
        THEN RMul(mortgageInsurance,
                  IF province = "ON" THEN Rat(8, 100)
                  ELSE IF province = "QC" THEN Rat(9975, 100000)
                  ELSE IF province = "SK" THEN Rat(6, 100)
                  ELSE R(0))
        ELSE R(0)
    ELSE R(0)

Fees(in) ==
    R(in.legalFees + in.titleInsurance + in.homeInspection + in.appraisalFee
        + in.brokerageFee + in.lenderFee + in.movingCosts)

\* The closing costs part of calculateMortgage.
ClosingCosts(v, in, mortgageInsurance) ==
    LET landTransferTax == LandTransferTax(v, in)
        foreignBuyerTax == ForeignBuyerTax(v, in)
        pstOnInsurance == PstOnInsurance(v, in.province, mortgageInsurance)
        sum == RAdd(RAdd(landTransferTax.total, foreignBuyerTax),
                    RAdd(Fees(in),
                         IF v = "MortgageJS" THEN R(0) ELSE pstOnInsurance))
    IN  [landTransferTax |-> landTransferTax,
         foreignBuyerTax |-> foreignBuyerTax,
         pstOnInsurance |-> pstOnInsurance,
         closingCosts |-> IF v = "MortgageTS" THEN RRound(sum) ELSE sum]

\* The initial results state.
NoResults ==
    [mortgageAmount |-> R(0), downPaymentPercent |-> R(0), mortgageInsurance |-> R(0),
     totalMortgage |-> R(0), monthlyPayment |-> R(0), principalPerPayment |-> R(0),
     interestPerPayment |-> R(0), totalMonthlyExpenses |-> R(0),
     interestPaidOverTerm |-> R(0), balanceAtEndOfTerm |-> R(0),
     amortizationSchedule |-> <<>>, standardAmortizationSchedule |-> <<>>,
     effectiveAmortization |-> R(0), closingCosts |-> R(0),
     interestSavingsOverTerm |-> R(0), interestSavingsOverAmortization |-> R(0),
     timeShaved |-> R(0)]

NoClosing ==
    [landTransferTax |-> [provincial |-> R(0), municipal |-> R(0), total |-> R(0)],
     foreignBuyerTax |-> R(0),
     pstOnInsurance |-> R(0),
     closingCosts |-> R(0)]

\* A fixed-point amount of the schedule engine in dollars.
FromMoney(a) == IF a.k = "fin" THEN Rat(a.n, MoneyScale) ELSE a

\* paymentAmount as a monthly amount, for the expense summary.
MonthlyPaymentOf(paymentFrequency, payment) ==
    IF paymentFrequency = "monthly" THEN payment
    ELSE RDiv(RMul(payment, R(PaymentsPerYear(paymentFrequency))), R(12))

\* TotalMonthlyExpenses reading the payment from the results state instead of
\* the local variable.
TotalMonthlyExpensesFromState(in, monthlyPayment) ==
    LET monthlyPropertyTaxes == RDiv(R(in.propertyTaxes), R(12))
        monthlyHomeInsurance == RDiv(R(in.homeInsurance), R(12))
        monthlyMaintenance ==
            RDiv(RMul(R(in.purchasePrice), RDiv(R(in.maintenance), R(100))), R(12))
    IN  RAdd(RAdd(RAdd(results.monthlyPayment, monthlyPropertyTaxes),
                  RAdd(R(in.condoFees), monthlyHomeInsurance)),
             RAdd(R(in.utilities), monthlyMaintenance))

TotalMonthlyExpenses(in, monthlyPayment) ==
    LET monthlyPropertyTaxes == RDiv(R(in.propertyTaxes), R(12))
        monthlyHomeInsurance == RDiv(R(in.homeInsurance), R(12))
        monthlyMaintenance ==
            RDiv(RMul(R(in.purchasePrice), RDiv(R(in.maintenance), R(100))), R(12))
    IN  RAdd(RAdd(RAdd(monthlyPayment, monthlyPropertyTaxes),
                  RAdd(R(in.condoFees), monthlyHomeInsurance)),
             RAdd(R(in.utilities), monthlyMaintenance))

\* originalAmortization - effectiveAmortization.
TimeShaved(amortizationPeriod, effectiveAmortization) ==
    RSub(R(amortizationPeriod), effectiveAmortization)

\* The record calculateMortgage passes to setResults, amounts in dollars; the
\* rows of the two schedules stay as the generator returned them.  (In
\* MortgageTS the record has two more fields, firstPrincipalPerPayment and
\* firstInterestPerPayment, which nothing here reads.)
ResultsOf(in, q, payment, standard, sched, closingCosts) ==
    LET pay == FromMoney(payment)
        monthlyPayment == MonthlyPaymentOf(in.paymentFrequency, pay)
        interestPerPayment ==
            RMul(q.totalMortgage,
                 Rat(in.interestRate, 100 * PaymentsPerYear(in.paymentFrequency)))
    IN  [mortgageAmount |-> q.mortgageAmount,
         downPaymentPercent |-> q.downPaymentPercent,
         mortgageInsurance |-> q.mortgageInsurance,
         totalMortgage |-> q.totalMortgage,
         monthlyPayment |-> monthlyPayment,
         principalPerPayment |-> RSub(pay, interestPerPayment),
         interestPerPayment |-> interestPerPayment,
         totalMonthlyExpenses |-> TotalMonthlyExpenses(in, monthlyPayment),
         interestPaidOverTerm |-> FromMoney(sched.totalInterestPaidOverTerm),
         balanceAtEndOfTerm |-> FromMoney(sched.balanceAtEndOfTerm),
         amortizationSchedule |-> sched.yearlySchedule,
         standardAmortizationSchedule |-> standard.yearlySchedule,
         effectiveAmortization |-> sched.effectiveAmortizationYears,
         closingCosts |-> closingCosts,
         interestSavingsOverTerm |->
            FromMoney(RSub(standard.totalInterestPaidOverTerm,
                           sched.totalInterestPaidOverTerm)),
         interestSavingsOverAmortization |->
            FromMoney(RSub(standard.totalInterestPaid, sched.totalInterestPaid)),
         timeShaved |->
            TimeShaved(in.amortizationPeriod, sched.effectiveAmortizationYears)]

(***************************************************************************)
(* Specification Spec: the qualification step over a wide range of prices. *)
(***************************************************************************)
MaxPriceSteps == 12

Prices ==
    {k * 100000 : k \in 0..MaxPriceSteps}
        \cup {10, 100005, 250000, 499990, 500005, 550000, 1000001}

DownPayments(type) ==
    IF type = "percent" THEN {0, 4, 5, 10, 15, 19, 20, 35, 50, 100}
    ELSE {0, 10, 10000, 25000, 50000, 75000, 100000, 250000}

\* The loan fields of the component's initial inputs state (whole percent).
DefaultLoan ==
    [interestRate |-> 6, amortizationPeriod |-> 25, term |-> 5,
     paymentFrequency |-> "monthly",
     extraPayment |-> 0, paymentIncrease |-> 0, annualPrepayment |-> 0]

\* An inputs record; the fields the arguments do not give have the values
\* of the component's initial inputs state.
InputsOf(p, dp, t, fb, loan) ==
    [purchasePrice |-> p, downPayment |-> R(dp), downPaymentType |-> t,
     foreignBuyer |-> fb,
     province |-> "ON", municipality |-> "ottawa", firstTimeBuyer |-> TRUE,
     propertyTaxes |-> 5000, condoFees |-> 0, homeInsurance |-> 1200,
     utilities |-> 300, maintenance |-> 1,
     legalFees |-> 1500, titleInsurance |-> 300, homeInspection |-> 500,
     appraisalFee |-> 300, brokerageFee |-> 0, lenderFee |-> 0, movingCosts |-> 2000,
     interestRate |-> loan.interestRate,
     amortizationPeriod |-> loan.amortizationPeriod,
     term |-> loan.term,
     paymentFrequency |-> loan.paymentFrequency,
     extraPayment |-> loan.extraPayment,
     paymentIncrease |-> loan.paymentIncrease,
     annualPrepayment |-> loan.annualPrepayment]

QualInputs ==
    UNION {{InputsOf(p, dp, t, fb, DefaultLoan) :
                p \in Prices, dp \in DownPayments(t), fb \in BOOLEAN} :
           t \in {"amount", "percent"}}

\* The text fields of inputs all hold numbers.
AllNumbers == [purchasePrice |-> "number", downPayment |-> "number"]

\* The inputs as calculateMortgage reads them: a text field that does not
\* hold a number counts as 0.
Numeric(in, kd) ==
    [in EXCEPT !.purchasePrice = IF kd.purchasePrice = "number" THEN @ ELSE 0,
               !.downPayment = IF kd.downPayment = "number" THEN @ ELSE R(0)]

NumericInputs == Numeric(inputs, kinds)

NotStarted ==
    /\ pc = "inputs"
    /\ qual = NoQualification
    /\ paymentAmount = R(0)
    /\ run = "none"
    /\ gen = NoGen
    /\ standardSchedule = NoSchedule
    /\ schedule = NoSchedule
    /\ closing = NoClosing
    /\ results = NoResults
    /\ kinds = AllNumbers
    /\ mountResults = NoResults
    /\ events = 0

Init ==
    /\ variant \in Variants
    /\ inputs \in QualInputs
    /\ NotStarted

\* calculateMortgage up to totalMortgage.
Qualify ==
    /\ pc = "inputs"
    /\ qual' = Qualification(variant, NumericInputs)
    /\ pc' = "qualified"
    /\ UNCHANGED <<variant, inputs, paymentAmount, run, gen, standardSchedule, schedule, closing, results, kinds, mountResults, events>>

Next == Qualify

Spec == Init /\ [][Next]_vars

(***************************************************************************)
(* Specification SpecClosing: qualification and closing costs over the     *)
(* provinces, municipalities and the prices around the brackets' bounds.   *)
(***************************************************************************)
ClosingPrices ==
    {0, 50000, 55000, 55100, 100000, 250000, 250100, 400000, 400100, 500000,
     510000, 525000, 1000000, 2000000, 2000100, 2100000, 3000000, 3100000}

\* The provinces with a branch of their own, one without (SK is named by
\* MortgageTS only) and a code no component lists.
ClosingProvinces == {"ON", "BC", "QC", "AB", "NS", "SK", "XX"}

\* The municipality keys of MUNICIPALITIES and one that is not listed.
ClosingMunicipalities == {"none", "ottawa", "toronto", "montreal", "halifax", "gatineau"}

\* The down payment percentages tried with a price: 5 (insured) and 20 (not
\* insured); only 20 with the prices just above a bound, whose premium and
\* PST would need more than 32 bits as exact fractions.
ClosingDownPayments(p) == IF p % 50000 = 0 THEN {5, 20} ELSE {20}

ClosingInputs ==
    UNION {{[InputsOf(p, dp, "percent", fb, DefaultLoan) EXCEPT
                 !.province = pr, !.municipality = mu, !.firstTimeBuyer = ftb] :
               dp \in ClosingDownPayments(p), fb \in BOOLEAN,
               pr \in ClosingProvinces, mu \in ClosingMunicipalities, ftb \in BOOLEAN} :
           p \in ClosingPrices}

InitClosing ==
    /\ variant \in Variants
    /\ inputs \in ClosingInputs
    /\ NotStarted

\* The closing costs of calculateMortgage, which depend on the inputs and on
\* the mortgage insurance only.
CalculateClosingCosts ==
    /\ pc = "qualified"
    /\ closing' = ClosingCosts(variant, NumericInputs, qual.mortgageInsurance)
    /\ pc' = "closed"
    /\ UNCHANGED <<variant, inputs, qual, paymentAmount, run, gen, standardSchedule, schedule, results, kinds, mountResults, events>>

NextClosing ==
    \/ Qualify
    \/ CalculateClosingCosts

SpecClosing == InitClosing /\ [][NextClosing]_vars

(***************************************************************************)
(* Specification SpecSchedule: the whole of calculateMortgage's loan       *)
(* computation (qualification, payment, the two schedules) on small loans, *)
(* one action per payment of the generator's loop.                         *)
(***************************************************************************)
MinAmortization == 5

MaxAmortization == 5

MaxTerm == 2

Frequencies ==
    {"monthly", "biweekly", "accelerated_biweekly", "weekly", "accelerated_weekly"}

Loans ==
    {[interestRate |-> ir, amortizationPeriod |-> ap, term |-> t,
      paymentFrequency |-> f,
      extraPayment |-> ep, paymentIncrease |-> pi, annualPrepayment |-> lump] :
        ir \in {0, 5, 6}, ap \in MinAmortization..MaxAmortization, t \in 1..MaxTerm,
        f \in Frequencies, ep \in {0, 5, 50}, pi \in {0, 10}, lump \in {0, 10}}

\* Inputs with purchasePrice = 0 and a down payment that is valid for it: no
\* amount, or a percentage.
ZeroPriceInputs ==
    {InputsOf(0, d[1], d[2], FALSE, loan) :
        d \in {<<0, "amount">>, <<20, "percent">>},
        loan \in {l \in Loans : l.extraPayment = 0 /\ l.paymentIncrease = 0}}

InitSchedule ==
    /\ variant \in Variants
    /\ inputs \in {InputsOf(1250, 250, "amount", FALSE, loan) : loan \in Loans}
                    \cup ZeroPriceInputs
    /\ NotStarted

\* calculateMortgage from totalMortgage to the first generator call.
CalculatePayment ==
    /\ pc = "qualified"
    /\ paymentAmount' = PaymentAmount(variant, ToMoney(qual.totalMortgage), inputs)
    /\ run' = "standard"
    /\ gen' = GenStart(ToMoney(qual.totalMortgage))
    /\ pc' = "schedule"
    /\ UNCHANGED <<variant, inputs, qual, standardSchedule, schedule, closing, results, kinds, mountResults, events>>

Args == GenArgs(run, inputs, ToMoney(qual.totalMortgage), paymentAmount)

\* One iteration of the generator's inner loop.
PaymentStep ==
    /\ pc = "schedule"
    /\ gen.at = "payment"
    /\ gen' = PaymentBody(variant, Args, gen)
    /\ UNCHANGED <<variant, inputs, pc, qual, paymentAmount, run, standardSchedule, schedule, closing, results, kinds, mountResults, events>>

\* The end of one iteration of the generator's outer loop.
YearEnd ==
    /\ pc = "schedule"
    /\ gen.at = "yearEnd"
    /\ gen' = YearEndBody(variant, Args, gen)
    /\ UNCHANGED <<variant, inputs, pc, qual, paymentAmount, run, standardSchedule, schedule, closing, results, kinds, mountResults, events>>

\* The standard schedule returns; the schedule with prepayments is started.
ReturnStandard ==
    /\ pc = "schedule"
    /\ gen.at = "returned"
    /\ run = "standard"
    /\ standardSchedule' = GenResult(Args, gen)
    /\ run' = "prepayment"
    /\ gen' = GenStart(ToMoney(qual.totalMortgage))
    /\ UNCHANGED <<variant, inputs, pc, qual, paymentAmount, schedule, closing, results, kinds, mountResults, events>>

\* The schedule with prepayments returns; calculateMortgage computes the
\* expenses, the closing costs and the savings, and sets the results.
ReturnSchedule ==
    /\ pc = "schedule"
    /\ gen.at = "returned"
    /\ run = "prepayment"
    /\ schedule' = GenResult(Args, gen)
    /\ closing' = ClosingCosts(variant, NumericInputs, qual.mortgageInsurance)
    /\ results' = ResultsOf(NumericInputs, qual, paymentAmount, standardSchedule, schedule', closing'.closingCosts)
    /\ mountResults' = IF mountResults = NoResults THEN results' ELSE mountResults
    /\ pc' = "done"
    /\ UNCHANGED <<variant, inputs, qual, paymentAmount, run, gen, standardSchedule, kinds, events>>

NextSchedule ==
    \/ Qualify
    \/ CalculatePayment
    \/ PaymentStep
    \/ YearEnd
    \/ ReturnStandard
    \/ ReturnSchedule

SpecSchedule == InitSchedule /\ [][NextSchedule]_vars

(***************************************************************************)
(* Specification SpecUI: the form.  handleInputChange, handleBlur and the  *)
(* effect that runs calculateMortgage, for the fields purchasePrice,       *)
(* downPayment and downPaymentType.  A text field holds a number, the      *)
(* empty string '' or another string: kinds says which, and inputs holds   *)
(* the number, or the number the string spells (0 for '').  A handler      *)
(* takes and returns a form [in |-> inputs, kinds |-> kinds].              *)
(***************************************************************************)
TextFields == {"purchasePrice", "downPayment"}

\* e.target.value: of a number input, '' or the decimal text of n; of the
\* select, an option.
EmptyText == [k |-> "empty", n |-> 0, o |-> ""]

Text(n) == [k |-> "text", n |-> n, o |-> ""]

Option(o) == [k |-> "option", n |-> 0, o |-> o]

\* Number(e.target.value) of the amortization and term selects.
Num(n) == [k |-> "number", n |-> n, o |-> ""]

\* The fields a select backs that no branch of handleInputChange relates to
\* another field.
PlainFields == {"province", "municipality", "paymentFrequency", "amortizationPeriod", "term"}

\* { ...inputs, [name]: value } for a field of PlainFields.
StorePlain(f, name, value) ==
    [f EXCEPT !.in[name] = IF value.k = "option" THEN value.o ELSE value.n]

\* typeof x === 'number' ? x : 0 for the two text fields.
PurchasePriceNumber(f) ==
    IF f.kinds.purchasePrice = "number" THEN f.in.purchasePrice ELSE 0

DownPaymentNumber(f) ==
    IF f.kinds.downPayment = "number" THEN f.in.downPayment ELSE R(0)

\* { ...inputs, [name]: x } for a text field, x a number or a numeric string.
Store(f, name, kind, x) ==
    IF name = "purchasePrice"
    THEN [f EXCEPT !.in.purchasePrice = x.n, !.kinds.purchasePrice = kind]
    ELSE [f EXCEPT !.in.downPayment = x, !.kinds.downPayment = kind]

\* setInputs(prev => ({ ...prev, [name]: '' })).
SetEmpty(f, name) ==
    IF name \in TextFields THEN Store(f, name, "empty", R(0))
    ELSE [f EXCEPT !.in[name] = ""]

\* Math.round(purchasePrice * (percent / 100) / 100) * 100.
RoundedToHundreds(purchasePrice, percent) ==
    RMul(RRound(RDiv(RMul(R(purchasePrice), RDiv(percent, R(100))), R(100))), R(100))

\* handleInputChange of Responsive, Purchase and MortgageJS.  Responsive and
\* Purchase empty the field on a value that is not numeric, an option of the
\* select included.  The value is converted to a number only where the field
\* holds a number.  downPayment is capped from above only; Purchase stores the
\* value of the event as it is, the others Number(value).
HandleInputChange(v, f, name, value) ==
    IF value.k = "empty" THEN SetEmpty(f, name)
    ELSE IF value.k = "option" /\ v \in {"Responsive", "Purchase"} THEN SetEmpty(f, name)
    ELSE IF name \in PlainFields THEN StorePlain(f, name, value)
    ELSE IF name = "purchasePrice" THEN
        LET kind == IF f.kinds.purchasePrice = "number" THEN "number" ELSE "string"
            updatedInputs == Store(f, "purchasePrice", kind, R(value.n))
            purchasePrice == IF kind = "number" THEN value.n ELSE 0
        IN  IF f.in.downPaymentType = "percent"
            THEN Store(updatedInputs, "downPayment", "number",
                       RoundedToHundreds(purchasePrice, DownPaymentNumber(f)))
            ELSE updatedInputs
    ELSE IF name = "downPayment" THEN
        LET limit == IF f.in.downPaymentType = "percent" THEN R(100)
                     ELSE R(PurchasePriceNumber(f))
            over == RGt(R(value.n), limit)
            kind == IF v = "Purchase" /\ f.kinds.downPayment # "number" /\ ~over
                    THEN "string" ELSE "number"
        IN  Store(f, "downPayment", kind, IF over THEN limit ELSE R(value.n))
    ELSE
        LET purchasePrice == PurchasePriceNumber(f)
            downPayment == DownPaymentNumber(f)
        IN  [f EXCEPT
                !.in.downPaymentType = value.o,
                !.in.downPayment =
                    IF value.o = "percent"
                    THEN RRound(RMul(RDiv(downPayment, R(purchasePrice)), R(100)))
                    ELSE RoundedToHundreds(purchasePrice, downPayment),
                !.kinds.downPayment = "number"]

\* handleInputChange of MortgageTS.  A field that holds a number takes '' or
\* Number(value); a field that holds a string takes the value as it is.  The
\* switch to percent converts only when purchasePrice > 0; a change of
\* purchasePrice leaves downPayment; downPayment is capped from both sides
\* when it is a number.
HandleInputChangeTS(f, name, value) ==
    IF name \in TextFields /\ f.kinds[name] = "number" /\ value.k = "empty"
    THEN SetEmpty(f, name)
    ELSE
        LET updatedInputs ==
                IF name = "downPaymentType" THEN [f EXCEPT !.in.downPaymentType = value.o]
                ELSE IF name \in PlainFields THEN StorePlain(f, name, value)
                ELSE IF f.kinds[name] = "number" THEN Store(f, name, "number", R(value.n))
                ELSE IF value.k = "empty" THEN Store(f, name, "empty", R(0))
                ELSE Store(f, name, "string", R(value.n))
            purchasePrice == PurchasePriceNumber(updatedInputs)
            downPayment == DownPaymentNumber(updatedInputs)
            limit == IF updatedInputs.in.downPaymentType = "percent" THEN R(100)
                     ELSE R(purchasePrice)
        IN  IF name = "downPaymentType" THEN
                IF value.o = "percent" /\ purchasePrice > 0
                THEN Store(updatedInputs, "downPayment", "number",
                           RDiv(RRound(RMul(RMul(RDiv(downPayment, R(purchasePrice)),
                                                 R(100)), R(100))), R(100)))
                ELSE IF value.o = "amount"
                THEN Store(updatedInputs, "downPayment", "number",
                           RRound(RMul(R(purchasePrice), RDiv(downPayment, R(100)))))
                ELSE updatedInputs
            ELSE IF name = "downPayment" THEN
                IF RLt(downPayment, R(0)) THEN Store(updatedInputs, "downPayment", "number", R(0))
                ELSE IF RGt(downPayment, limit)
                THEN Store(updatedInputs, "downPayment", "number", limit)
                ELSE updatedInputs
            ELSE updatedInputs

\* handleBlur: '' becomes 0; Purchase and MortgageTS also reset a NaN.
HandleBlur(v, f, name) ==
    IF f.kinds[name] = "empty" THEN Store(f, name, "number", R(0))
    ELSE IF /\ v \in {"Purchase", "MortgageTS"}
            /\ name = "downPayment"
            /\ f.kinds.downPayment = "number"
            /\ RIsNaN(f.in.downPayment)
    THEN Store(f, name, "number", R(0))
    ELSE f

\* SkipCalculation of an effect that has no test.
SkipCalculationNever(in, kd) == FALSE

\* Object.values(inputs).some(value => value === ''): the effect returns
\* without calculating.
SkipCalculation(in, kd) ==
    \/ kd.purchasePrice = "empty"
    \/ kd.downPayment = "empty"
    \/ \E name \in {"downPaymentType", "province", "municipality", "paymentFrequency"} :
           in[name] = ""

MaxEvents == 3

\* The loan of the form: the shortest amortization period the select offers.
FormLoan ==
    [interestRate |-> 6, amortizationPeriod |-> MinAmortization, term |-> 1,
     paymentFrequency |-> "monthly",
     extraPayment |-> 0, paymentIncrease |-> 0, annualPrepayment |-> 0]

\* The initial inputs state, scaled down: a down payment amount below the
\* price.
FormInputs == InputsOf(200, 150, "amount", FALSE, FormLoan)

\* The values the events of a field can carry.
Values(name) ==
    IF name = "purchasePrice" THEN {EmptyText, Text(100)}
    ELSE IF name = "downPayment" THEN {EmptyText, Text(150)}
    ELSE {Option(o) : o \in {"amount", "percent"} \ {inputs.downPaymentType}}

Form == [in |-> inputs, kinds |-> kinds]

\* No effect is pending and no calculation is running.
Idle == pc \in {"done", "idle"}

\* The component has mounted; the effect of the first render is pending.
InitUI ==
    /\ variant \in Variants
    /\ inputs = FormInputs
    /\ pc = "effect"
    /\ qual = NoQualification
    /\ paymentAmount = R(0)
    /\ run = "none"
    /\ gen = NoGen
    /\ standardSchedule = NoSchedule
    /\ schedule = NoSchedule
    /\ closing = NoClosing
    /\ results = NoResults
    /\ kinds = AllNumbers
    /\ mountResults = NoResults
    /\ events = 0

\* A change event of one field: handleInputChange and setInputs.
ChangeField(name, value) ==
    /\ Idle
    /\ events < MaxEvents
    /\ LET f == IF variant = "MortgageTS" THEN HandleInputChangeTS(Form, name, value)
                ELSE HandleInputChange(variant, Form, name, value)
       IN  inputs' = f.in /\ kinds' = f.kinds
    /\ events' = events + 1
    /\ pc' = "effect"
    /\ UNCHANGED <<variant, qual, paymentAmount, run, gen, standardSchedule, schedule, closing, results, mountResults>>

ChangeInput ==
    \E name \in TextFields \cup {"downPaymentType"} :
        \E value \in Values(name) : ChangeField(name, value)

\* A blur event of one text field whose handleBlur calls setInputs.
BlurField(name) ==
    /\ Idle
    /\ events < MaxEvents
    /\ HandleBlur(variant, Form, name) # Form
    /\ inputs' = HandleBlur(variant, Form, name).in
    /\ kinds' = HandleBlur(variant, Form, name).kinds
    /\ events' = events + 1
    /\ pc' = "effect"
    /\ UNCHANGED <<variant, qual, paymentAmount, run, gen, standardSchedule, schedule, closing, results, mountResults>>

Blur == \E name \in TextFields : BlurField(name)

\* The effect on inputs: return if a field is '', else calculateMortgage, whose
\* steps are the actions of SpecSchedule.
Effect ==
    /\ pc = "effect"
    /\ pc' = IF SkipCalculation(inputs, kinds) THEN "idle" ELSE "inputs"
    /\ UNCHANGED <<variant, inputs, qual, paymentAmount, run, gen, standardSchedule, schedule, closing, results, kinds, mountResults, events>>

NextUI ==
    \/ ChangeInput
    \/ Blur
    \/ Effect
    \/ Qualify
    \/ CalculatePayment
    \/ PaymentStep
    \/ YearEnd
    \/ ReturnStandard
    \/ ReturnSchedule

SpecUI == InitUI /\ [][NextUI]_vars

\* ---------------------------------------------------------------------
\* The selects of the form.

MaxAmortizationPeriod == 30

MaxTermLength == 10

\* AMORTIZATION_PERIODS and TERM_LENGTHS, the options of the two selects.
AMORTIZATION_PERIODS == MinAmortization..MaxAmortizationPeriod

TERM_LENGTHS == 1..MaxTermLength

\* PROVINCES and PAYMENT_FREQUENCIES: the values of the options.
PROVINCES == {"AB", "BC", "MB", "NB", "NL", "NS", "ON", "PE", "QC", "SK", "NT", "NU", "YT"}

PAYMENT_FREQUENCIES == {"monthly", "biweekly", "accelerated_biweekly", "weekly", "accelerated_weekly"}

\* (MUNICIPALITIES[newProvince] || MUNICIPALITIES['default'])[0].value.
FirstMunicipality(newProvince) ==
    IF newProvince = "ON" THEN "ottawa" ELSE "none"

\* The options the events of a select choose among: the two shortest
\* amortization periods, the shortest and the longest term, two frequencies,
\* two provinces; the option the field already holds gives no change event.
SelectValues(name) ==
    IF name = "amortizationPeriod"
    THEN {Num(n) : n \in (AMORTIZATION_PERIODS \cap {MinAmortization, MinAmortization + 1}) \ {inputs.amortizationPeriod}}
    ELSE IF name = "term"
    THEN {Num(n) : n \in (TERM_LENGTHS \cap {1, MaxTermLength}) \ {inputs.term}}
    ELSE IF name = "paymentFrequency"
    THEN {Option(o) : o \in (PAYMENT_FREQUENCIES \cap {"monthly", "biweekly"}) \ {inputs.paymentFrequency}}
    ELSE IF name = "province"
    THEN {Option(o) : o \in (PROVINCES \cap {"ON", "BC"}) \ {inputs.province}}
    ELSE Values(name)

\* A change event of a select with one call of handleInputChange.
ChangeSelect ==
    \E name \in {"amortizationPeriod", "term", "paymentFrequency", "downPaymentType"} :
        \E value \in SelectValues(name) : ChangeField(name, value)

\* One call of handleInputChange of an event that has already called
\* setInputs: the call reads the inputs of the render (f), and React applies
\* its update to the state the earlier updates left (prev).  An updater
\* function changes one field of prev; setInputs(updatedInputs) replaces the
\* state by the copy of f.
NextCall(v, f, prev, name, value) ==
    IF value.k = "empty" \/ (value.k = "option" /\ v \in {"Responsive", "Purchase"})
    THEN SetEmpty(prev, name)
    ELSE IF v = "MortgageTS" THEN HandleInputChangeTS(f, name, value)
    ELSE HandleInputChange(v, f, name, value)

\* onChange of the province select: handleInputChange('province', ...) and
\* then handleInputChange('municipality', ...), both of the same render.
ProvinceChange(v, f, newProvince) ==
    NextCall(v, f, NextCall(v, f, f, "province", Option(newProvince)),
             "municipality", Option(FirstMunicipality(newProvince)))

ChangeProvinceTo(newProvince) ==
    /\ Idle
    /\ events < MaxEvents
    /\ inputs' = ProvinceChange(variant, Form, newProvince).in
    /\ kinds' = ProvinceChange(variant, Form, newProvince).kinds
    /\ events' = events + 1
    /\ pc' = "effect"
    /\ UNCHANGED <<variant, qual, paymentAmount, run, gen, standardSchedule, schedule, closing, results, mountResults>>

ChangeProvince == \E value \in SelectValues("province") : ChangeProvinceTo(value.o)

NextSelects ==
    \/ ChangeSelect
    \/ ChangeProvince
    \/ Effect
    \/ Qualify
    \/ CalculatePayment
    \/ PaymentStep
    \/ YearEnd
    \/ ReturnStandard
    \/ ReturnSchedule

SpecSelects == InitUI /\ [][NextSelects]_vars

(***************************************************************************)
(* Claims about the qualification step (specification Spec).               *)
(***************************************************************************)
\* The minimum required down payment as the specification states it.
StatedMinimumRequired(purchasePrice, foreignBuyer) ==
    IF foreignBuyer THEN RMul(R(purchasePrice), Rat(35, 100))
    ELSE IF purchasePrice <= 500000 THEN RMul(R(purchasePrice), Rat(5, 100))
    ELSE IF purchasePrice <= 1000000 THEN
        RAdd(R(25000), RMul(R(purchasePrice - 500000), Rat(10, 100)))
    ELSE RMul(R(purchasePrice), Rat(20, 100))

\* C1: in every component, for every price, supplied down payment and
\* foreignBuyer flag, actualDownPayment is the larger of the supplied amount
\* and the stated minimum (35% foreign; 5% up to 500000; 25000 + 10% of the
\* excess up to 1000000; 20% above).
C1_ActualDownPaymentIsMaxOfSuppliedAndMinimum ==
    pc = "qualified" =>
        qual.actualDownPayment =
            RMax(DownPaymentAmount(inputs),
                 StatedMinimumRequired(inputs.purchasePrice, inputs.foreignBuyer))

\* The premium rate table of the specification, strict at every bound.
StatedRate(loanToValue) ==
    IF RGt(loanToValue, R(95)) THEN Rat(4, 1)
    ELSE IF RGt(loanToValue, R(90)) THEN Rat(31, 10)
    ELSE IF RGt(loanToValue, R(85)) THEN Rat(28, 10)
    ELSE IF RGt(loanToValue, R(80)) THEN Rat(24, 10)
    ELSE R(0)

\* C2: mortgageInsurance is 0 whenever actualDownPaymentPercent >= 20, and
\* otherwise the bracket rate of loanToValue = 100 - actualDownPaymentPercent
\* times (purchasePrice - actualDownPayment), brackets compared strictly.
C2_InsuranceByStrictBrackets ==
    pc = "qualified" =>
        LET percent == qual.downPaymentPercent
            baseAmount == RSub(R(inputs.purchasePrice), qual.actualDownPayment)
        IN  IF RGe(percent, R(20)) THEN qual.mortgageInsurance = R(0)
            ELSE qual.mortgageInsurance =
                    RMul(RDiv(StatedRate(RSub(R(100), percent)), R(100)), baseAmount)

\* A qualified loan whose loanToValue lies exactly on the bound 90 and is insured.
C2_Witness ==
    /\ pc = "qualified"
    /\ RSub(R(100), qual.downPaymentPercent) = R(90)
    /\ RGt(qual.mortgageInsurance, R(0))

\* The insurance-threshold example: price 500000, non-foreign buyer, down
\* payment given as an amount.
ThresholdExample(downPayment) ==
    /\ pc = "qualified"
    /\ inputs.purchasePrice = 500000
    /\ inputs.downPaymentType = "amount"
    /\ inputs.downPayment = R(downPayment)
    /\ ~inputs.foreignBuyer

\* C3: a down payment of 50000 on 500000 (10%, loanToValue 90) is insured
\* at 3.1% of 450000 = 13950, and one of 100000 (exactly 20%) at 0.
C3_ThresholdExample ==
    /\ ThresholdExample(50000) => qual.mortgageInsurance = R(13950)
    /\ ThresholdExample(100000) => qual.mortgageInsurance = R(0)

(***************************************************************************)
(* Claims about the payment and the schedules (specification               *)
(* SpecSchedule).                                                          *)
(***************************************************************************)
Principal == ToMoney(qual.totalMortgage)

PaymentComputed == pc \in {"schedule", "done"}

\* The rows of the schedules generateAmortizationSchedule has returned.
ReturnedRows ==
    {standardSchedule.yearlySchedule[y] : y \in DOMAIN standardSchedule.yearlySchedule}
        \cup {schedule.yearlySchedule[y] : y \in DOMAIN schedule.yearlySchedule}

\* C4: when the interest rate is 0, for every payment frequency the payment
\* amount is a defined number, principal / (amortizationYears x
\* paymentsPerYear), and every row of the schedules has zero interest.
C4_ZeroRatePaymentIsPurePrincipal ==
    (PaymentComputed /\ inputs.interestRate = 0) =>
        /\ RIsFin(paymentAmount)
        /\ paymentAmount =
               XDiv(Principal,
                    R(inputs.amortizationPeriod * PaymentsPerYear(inputs.paymentFrequency)),
                    1)
        /\ \A row \in ReturnedRows : row.interestPaid = R(0)

\* The ordinary monthly payment: the annuity at n = amortizationYears x 12.
MonthlyPayment == BasePaymentAmount(Principal, inputs.interestRate, inputs.amortizationPeriod, 12)

\* C5: at a positive rate, in every variant, the accelerated bi-weekly payment
\* is the ordinary monthly payment / 2 and the accelerated weekly payment is
\* the ordinary monthly payment / 4.
C5_AcceleratedPaymentFromMonthly ==
    (PaymentComputed /\ inputs.interestRate > 0) =>
        /\ inputs.paymentFrequency = "accelerated_biweekly" =>
               paymentAmount = XDiv(MonthlyPayment, R(2), 1)
        /\ inputs.paymentFrequency = "accelerated_weekly" =>
               paymentAmount = XDiv(MonthlyPayment, R(4), 1)

\* C6: every row returned by generateAmortizationSchedule has
\* endingBalance = startingBalance - principalPaid - extraPayments.
C6_RowBalanceIdentity ==
    \A row \in ReturnedRows :
        row.endingBalance =
            RSub(RSub(row.startingBalance, row.principalPaid), row.extraPayments)

NonIncreasing(rows) ==
    /\ \A y \in DOMAIN rows : RLe(rows[y].endingBalance, rows[y].startingBalance)
    /\ \A y \in DOMAIN rows :
           y + 1 \in DOMAIN rows => RLe(rows[y + 1].endingBalance, rows[y].endingBalance)

\* C7: in every schedule produced from the payment calculator's payment
\* amount, each year's endingBalance is at most its startingBalance and
\* endingBalance never increases from one year to the next.
C7_BalanceNonIncreasing ==
    /\ NonIncreasing(standardSchedule.yearlySchedule)
    /\ NonIncreasing(schedule.yearlySchedule)

RECURSIVE SumPrincipalPaid(_)
SumPrincipalPaid(rows) ==
    IF rows = <<>> THEN R(0)
    ELSE RAdd(rows[1].principalPaid, SumPrincipalPaid(Tail(rows)))

StandardReturned == pc = "done" \/ (pc = "schedule" /\ run = "prepayment")

\* The rounding tolerance of the annuity identity, in money units: one cent
\* for every hundred dollars of principal.
Tolerance == R(Principal.n \div 10000)

Within(a, b, tolerance) == RLe(RSub(a, b), tolerance) /\ RLe(RSub(b, a), tolerance)

\* C8: at a positive rate, for every payment frequency, the standard
\* schedule's principalPaid summed over its rows equals the principal within
\* the rounding tolerance, its last endingBalance is 0 within the same
\* tolerance, and it has at most amortizationYears rows.
C8_AnnuityIdentity ==
    (StandardReturned /\ inputs.interestRate > 0) =>
        LET rows == standardSchedule.yearlySchedule
        IN  /\ Len(rows) >= 1
            /\ Len(rows) <= inputs.amortizationPeriod
            /\ Within(SumPrincipalPaid(rows), Principal, Tolerance)
            /\ Within(rows[Len(rows)].endingBalance, R(0), Tolerance)

\* A standard schedule at a positive rate that ran its whole amortization
\* period and left a rounding residue.
C8_Witness ==
    /\ pc = "done"
    /\ inputs.interestRate > 0
    /\ inputs.paymentFrequency = "weekly"
    /\ Len(standardSchedule.yearlySchedule) = inputs.amortizationPeriod
    /\ RGt(standardSchedule.yearlySchedule[inputs.amortizationPeriod].endingBalance, R(0))
    /\ SumPrincipalPaid(standardSchedule.yearlySchedule) # Principal

AnyPrepayment ==
    \/ inputs.extraPayment > 0
    \/ inputs.annualPrepayment > 0
    \/ inputs.paymentIncrease > 0

\* C9: when any of extraPayment, annualPrepayment or paymentIncrease is
\* positive, the schedule with prepayments has effectiveAmortizationYears and
\* totalInterestPaid at most those of the standard schedule.
C9_PrepaymentMonotone ==
    (pc = "done" /\ AnyPrepayment) =>
        /\ RLe(schedule.effectiveAmortizationYears,
               standardSchedule.effectiveAmortizationYears)
        /\ RLe(schedule.totalInterestPaid, standardSchedule.totalInterestPaid)

\* C10: when the generator returns, effectiveAmortizationYears is the number
\* of payments applied to a positive balance divided by paymentsPerYear.
C10_EffectiveYearsCountsAppliedPayments ==
    (pc = "schedule" /\ gen.at = "returned") =>
        GenResult(Args, gen).effectiveAmortizationYears =
            Rat(gen.paymentsApplied, Args.paymentsPerYear)

(***************************************************************************)
(* Claims about the results record and the returned schedules              *)
(* (specification SpecSchedule).                                           *)
(***************************************************************************)
Done == pc = "done"

NoPrepayment ==
    inputs.extraPayment = 0 /\ inputs.paymentIncrease = 0 /\ inputs.annualPrepayment = 0

\* C11: the three savings results are the standard schedule's output minus
\* the prepayment schedule's output (interest over the term, total interest,
\* effectiveAmortizationYears), and with all three prepayment parameters 0
\* they are exactly 0 for every payment frequency.
C11_SavingsAreScheduleDifferences ==
    Done =>
        /\ results.interestSavingsOverTerm =
               FromMoney(RSub(standardSchedule.totalInterestPaidOverTerm,
                              schedule.totalInterestPaidOverTerm))
        /\ results.interestSavingsOverAmortization =
               FromMoney(RSub(standardSchedule.totalInterestPaid,
                              schedule.totalInterestPaid))
        /\ results.timeShaved =
               RSub(standardSchedule.effectiveAmortizationYears,
                    schedule.effectiveAmortizationYears)
        /\ NoPrepayment =>
               /\ results.interestSavingsOverTerm = R(0)
               /\ results.interestSavingsOverAmortization = R(0)
               /\ results.timeShaved = R(0)

\* The numeric fields of a results record.
NumericResults(r) ==
    {r.mortgageAmount, r.downPaymentPercent, r.mortgageInsurance, r.totalMortgage,
     r.monthlyPayment, r.principalPerPayment, r.interestPerPayment,
     r.totalMonthlyExpenses, r.interestPaidOverTerm, r.balanceAtEndOfTerm,
     r.effectiveAmortization, r.closingCosts, r.interestSavingsOverTerm,
     r.interestSavingsOverAmortization, r.timeShaved}

\* C15: with purchasePrice = 0 calculateMortgage produces
\* actualDownPaymentPercent = 0 and no field of the results record is NaN or
\* Infinity.
C15_ZeroPriceResultsAreFinite ==
    (Done /\ inputs.purchasePrice = 0) =>
        /\ results.downPaymentPercent = R(0)
        /\ \A x \in NumericResults(results) : RIsFin(x)

\* The rows of a returned schedule: at least one and at most amortizationYears,
\* numbered 1, 2, ... in order, and none after a row with endingBalance <= 0.
WellFormedSchedule(rows) ==
    /\ Len(rows) >= 1
    /\ Len(rows) <= inputs.amortizationPeriod
    /\ \A y \in 1..Len(rows) : rows[y].year = y
    /\ \A y \in 1..(Len(rows) - 1) : ~RLe(rows[y].endingBalance, R(0))

\* C17: every schedule generateAmortizationSchedule returns has between 1 and
\* amortizationYears rows, numbered 1, 2, ... in order, and is truncated at the
\* first year whose endingBalance is <= 0; the generator makes at most
\* amortizationYears x paymentsPerYear payment steps.
C17_ScheduleBoundedAndTruncated ==
    /\ StandardReturned => WellFormedSchedule(standardSchedule.yearlySchedule)
    /\ Done => WellFormedSchedule(schedule.yearlySchedule)
    /\ pc \in {"schedule", "done"} =>
          LET most == inputs.amortizationPeriod * PaymentsPerYear(inputs.paymentFrequency)
          IN  gen.lastPaymentNumber <= most /\ gen.paymentsApplied <= most

\* A schedule with prepayments that was paid off, and ended, before the last
\* year of the amortization period.
C17_Witness ==
    /\ Done
    /\ Len(schedule.yearlySchedule) >= 2
    /\ Len(schedule.yearlySchedule) < inputs.amortizationPeriod
    /\ RLe(schedule.yearlySchedule[Len(schedule.yearlySchedule)].endingBalance, R(0))

(***************************************************************************)
(* Claims about the closing costs (specification SpecClosing).             *)
(***************************************************************************)
Closed == pc = "closed"

\* The components whose calculateLandTransferTax returns a provincial and a
\* municipal part.
WithTaxDetails == variant \in {"Responsive", "Purchase"}

\* The part of an amount between two bounds.
Slice(amount, from, to) ==
    IF amount <= from THEN 0 ELSE IF amount >= to THEN to - from ELSE amount - from

\* The Ontario tax by marginal brackets: 0.5% to 55000, 1% to 250000, 1.5% to
\* 400000, 2% to 2000000, 2.5% above.
MarginalOntarioTax(price) ==
    RAdd(RAdd(RMul(R(Slice(price, 0, 55000)), Rat(5, 1000)),
              RMul(R(Slice(price, 55000, 250000)), Rat(10, 1000))),
         RAdd(RMul(R(Slice(price, 250000, 400000)), Rat(15, 1000)),
              RAdd(RMul(R(Slice(price, 400000, 2000000)), Rat(20, 1000)),
                   RMul(R(IF price > 2000000 THEN price - 2000000 ELSE 0),
                        Rat(25, 1000)))))

\* C12: for province ON the provincial part of calculateLandTransferTax is
\* the marginal-bracket tax, reduced for a first-time buyer by min(4000, tax)
\* and never below 0; at price 250000 the tax is 2225 and a first-time buyer
\* pays 0.
C12_OntarioProvincialTax ==
    (Closed /\ WithTaxDetails /\ inputs.province = "ON") =>
        LET tax == MarginalOntarioTax(inputs.purchasePrice)
            provincial == closing.landTransferTax.provincial
        IN  /\ provincial = IF inputs.firstTimeBuyer
                            THEN RSub(tax, RMin(R(4000), tax))
                            ELSE tax
            /\ RGe(provincial, R(0))
            /\ inputs.purchasePrice = 250000 =>
                   provincial = IF inputs.firstTimeBuyer THEN R(0) ELSE R(2225)

\* A first-time buyer in Ontario above 2000000, taxed in the top bracket.
C12_Witness ==
    /\ Closed /\ WithTaxDetails /\ inputs.province = "ON"
    /\ inputs.purchasePrice > 2000000
    /\ inputs.firstTimeBuyer
    /\ RGt(closing.landTransferTax.provincial, R(36475 - 4000))

\* C13: foreignBuyerTax is 0 for a buyer who is not foreign and otherwise
\* 20% of the price in BC, 25% in ON and 0 in every other province, whatever
\* the municipality; closingCosts holds it on top of the land transfer tax.
C13_ForeignBuyerTax ==
    Closed =>
        /\ closing.foreignBuyerTax =
               IF ~inputs.foreignBuyer THEN R(0)
               ELSE IF inputs.province = "BC"
               THEN RMul(R(inputs.purchasePrice), Rat(20, 100))
               ELSE IF inputs.province = "ON"
               THEN RMul(R(inputs.purchasePrice), Rat(25, 100))
               ELSE R(0)
        /\ RGe(closing.closingCosts,
               RAdd(closing.landTransferTax.total, closing.foreignBuyerTax))

\* The PST on the insurance premium where the component computes none: 8% in
\* ON and QC, as Responsive and Purchase compute it.
StatedPst ==
    IF variant = "MortgageJS"
    THEN PstOnInsurance("Responsive", inputs.province, qual.mortgageInsurance)
    ELSE closing.pstOnInsurance

\* C14: in every component closingCosts is exactly the land transfer tax
\* after rebate + foreignBuyerTax + the seven fees + the PST on the insurance
\* premium, and the PST is not part of totalMortgage.
C14_ClosingCostsSum ==
    Closed =>
        /\ closing.closingCosts =
               RAdd(RAdd(RAdd(closing.landTransferTax.total, closing.foreignBuyerTax),
                         Fees(inputs)),
                    StatedPst)
        /\ qual.totalMortgage = RAdd(qual.mortgageAmount, qual.mortgageInsurance)

\* The (province, municipality) pairs with a municipal tax.
MunicipalPairs == {<<"ON", "toronto">>, <<"QC", "montreal">>, <<"NS", "halifax">>}

\* C16: the municipal part of calculateLandTransferTax is 0 for every
\* (province, municipality) pair other than (ON, toronto), (QC, montreal) and
\* (NS, halifax), and total = provincial + municipal.
C16_MunicipalTaxOnlyForListedPairs ==
    (Closed /\ WithTaxDetails) =>
        /\ <<inputs.province, inputs.municipality>> \notin MunicipalPairs =>
               closing.landTransferTax.municipal = R(0)
        /\ closing.landTransferTax.total =
               RAdd(closing.landTransferTax.provincial, closing.landTransferTax.municipal)

\* A listed municipality key under another province, and a key that is not
\* listed, each with a positive provincial tax and no municipal tax.
C16_Witness ==
    /\ Closed /\ WithTaxDetails
    /\ <<inputs.province, inputs.municipality>> \in {<<"BC", "toronto">>, <<"NS", "gatineau">>}
    /\ RGt(closing.landTransferTax.provincial, R(0))
    /\ closing.landTransferTax.municipal = R(0)

C19_PercentWithinBounds ==
    (inputs.downPaymentType = "percent" /\ kinds.downPayment = "number") =>
        RGe(inputs.downPayment, R(0)) /\ RLe(inputs.downPayment, R(100))

\* Some field of inputs holds ''.
SomeFieldEmpty ==
    \/ \E name \in TextFields : kinds[name] = "empty"
    \/ inputs.downPaymentType = ""

\* C20: while a field of inputs holds '' no calculation starts and results
\* stays as it is; a blur of a text field holding '' makes it the number 0;
\* the effect on inputs without '' starts the calculation.
C20_EmptyFieldsSuspendCalculation ==
    [][/\ SomeFieldEmpty => (results' = results /\ pc' \in {"effect", "idle"})
       /\ \A name \in TextFields :
            (BlurField(name) /\ kinds[name] = "empty") =>
                /\ kinds'[name] = "number"
                /\ Numeric(inputs', kinds')[name] = IF name = "purchasePrice" THEN 0 ELSE R(0)
                /\ inputs'[name] = Numeric(inputs', kinds')[name]
       /\ (pc = "effect" /\ ~SomeFieldEmpty) => pc' = "inputs"]_vars

\* purchasePrice was emptied, the effect returned without calculating, the
\* field was blurred to 0 and the calculation ran on it.
C20_Witness ==
    /\ Done
    /\ kinds = AllNumbers
    /\ inputs.purchasePrice = 0
    /\ results # mountResults
    /\ results.mortgageAmount = qual.mortgageAmount

(***************************************************************************)
(* generateAmortizationSchedule in binary floating point.  The numbers of  *)
(* the code are doubles: every +, -, * and / gives the representable       *)
(* number nearest to the exact result, ties to the even mantissa.  Here    *)
(* the format has MantissaBits significant bits instead of 53 and no       *)
(* bound on the exponent; a number is the exact fraction it stands for.    *)
(***************************************************************************)
MantissaBits == 4

Pow2(k) == 2 ^ k

\* n / d scaled by a power of two into 2^(MantissaBits-1) .. 2^MantissaBits.
RECURSIVE Normalized(_, _, _)
Normalized(n, d, e) ==
    IF n >= Pow2(MantissaBits) * d THEN Normalized(n, 2 * d, e + 1)
    ELSE IF n < Pow2(MantissaBits - 1) * d THEN Normalized(2 * n, d, e - 1)
    ELSE [n |-> n, d |-> d, e |-> e]

\* The integer nearest to n / d, a tie going to the even one.
RoundHalfEven(n, d) ==
    LET q == n \div d
        r == n % d
    IN  IF 2 * r < d THEN q
        ELSE IF 2 * r > d THEN q + 1
        ELSE IF q % 2 = 0 THEN q ELSE q + 1

\* The representable number nearest to a.
Fl(a) ==
    IF a.k # "fin" \/ a.n = 0 THEN a
    ELSE LET z == Normalized(Abs(a.n), a.d, 0)
             mantissa == Sign(a.n) * RoundHalfEven(z.n, z.d)
         IN  IF z.e >= 0 THEN R(mantissa * Pow2(z.e)) ELSE Rat(mantissa, Pow2(-z.e))

FlAdd(a, b) == Fl(RAdd(a, b))

FlSub(a, b) == Fl(RSub(a, b))

FlMul(a, b) == Fl(RMul(a, b))

FlDiv(a, b) == Fl(RDiv(a, b))

\* The arguments of the call, from the variables that hold them.
RoundedArgs ==
    [principal |-> qual.totalMortgage,
     interestRatePerPayment |->
         FlDiv(FlDiv(R(inputs.interestRate), R(100)), R(PaymentsPerYear(inputs.paymentFrequency))),
     amortizationYears |-> inputs.amortizationPeriod,
     adjustedPayment |->
         FlMul(paymentAmount, FlAdd(R(1), FlDiv(R(inputs.paymentIncrease), R(100)))),
     paymentsPerYear |-> PaymentsPerYear(inputs.paymentFrequency),
     term |-> inputs.term,
     extraPayment |-> inputs.extraPayment,
     annualPrepayment |-> inputs.annualPrepayment]

\* One iteration of the inner loop, every operation rounded.
RoundedPaymentBody(a, g) ==
    IF RLe(g.balance, R(0)) THEN
        [g EXCEPT !.lastPaymentNumber = CountPayment(g.lastPaymentNumber),
                  !.at = "yearEnd"]
    ELSE
        LET interest == FlMul(g.balance, a.interestRatePerPayment)
            base == RMin(FlSub(a.adjustedPayment, interest), g.balance)
            extra == IF a.extraPayment > 0
                     THEN RMin(R(a.extraPayment), FlSub(g.balance, base))
                     ELSE R(0)
            principalForPayment == FlAdd(base, extra)
            balance == FlSub(g.balance, principalForPayment)
            totalInterestPaid == FlAdd(g.totalInterestPaid, interest)
            endOfTerm == g.year = a.term /\ g.i = a.paymentsPerYear
        IN  [g EXCEPT
                !.lastPaymentNumber = CountPayment(g.lastPaymentNumber),
                !.paymentsApplied = g.paymentsApplied + 1,
                !.balance = balance,
                !.yearlyExtraPayments = FlAdd(g.yearlyExtraPayments, extra),
                !.yearlyPrincipalPaid = FlAdd(g.yearlyPrincipalPaid, principalForPayment),
                !.yearlyInterestPaid = FlAdd(g.yearlyInterestPaid, interest),
                !.totalInterestPaid = totalInterestPaid,
                !.balanceAtEndOfTerm =
                    IF endOfTerm THEN balance ELSE g.balanceAtEndOfTerm,
                !.totalInterestPaidOverTerm =
                    IF endOfTerm THEN totalInterestPaid ELSE g.totalInterestPaidOverTerm,
                !.i = g.i + 1,
                !.at = IF g.i = a.paymentsPerYear THEN "yearEnd" ELSE "payment"]

\* The end of one iteration of the outer loop, every operation rounded.
RoundedYearEndBody(v, a, g) ==
    LET prepay == IF a.annualPrepayment > 0 /\ RGt(g.balance, R(0))
                  THEN RMin(FlMul(a.principal, FlDiv(R(a.annualPrepayment), R(100))),
                            g.balance)
                  ELSE R(0)
        balance == FlSub(g.balance, prepay)
        yearlyPrincipalPaid == FlAdd(g.yearlyPrincipalPaid, prepay)
        yearlyExtraPayments == FlAdd(g.yearlyExtraPayments, prepay)
        row == [year |-> g.year,
                startingBalance |->
                    IF v = "MortgageTS" THEN balance
                    ELSE FlAdd(FlAdd(FlSub(a.principal, yearlyPrincipalPaid),
                                     g.yearlyInterestPaid), balance),
                principalPaid |-> yearlyPrincipalPaid,
                interestPaid |-> g.yearlyInterestPaid,
                extraPayments |-> yearlyExtraPayments,
                endingBalance |-> balance]
        last == LastYear(balance, g.year, a.amortizationYears)
    IN  [g EXCEPT
            !.balance = balance,
            !.yearlySchedule = Append(g.yearlySchedule, row),
            !.yearlyPrincipalPaid = IF last THEN yearlyPrincipalPaid ELSE R(0),
            !.yearlyInterestPaid = IF last THEN g.yearlyInterestPaid ELSE R(0),
            !.yearlyExtraPayments = IF last THEN yearlyExtraPayments ELSE R(0),
            !.year = IF last THEN g.year ELSE g.year + 1,
            !.i = IF last THEN g.i ELSE 1,
            !.at = IF last THEN "returned" ELSE "payment"]

\* The loans of the calls: no payment increase (the adjusted payment is then
\* paymentAmount * 1 in every component), an extra payment that exceeds the
\* principal or none.
RoundedLoans ==
    {[interestRate |-> ir, amortizationPeriod |-> MinAmortization, term |-> 1,
      paymentFrequency |-> "monthly",
      extraPayment |-> ep, paymentIncrease |-> 0, annualPrepayment |-> lump] :
        ir \in {0, 5}, ep \in {0, Pow2(MantissaBits)}, lump \in {0, 10}}

\* The principals: the whole numbers with the highest exponent at which the
\* format still has them all.
RoundedPrincipals == {R(n) : n \in Pow2(MantissaBits - 1)..(Pow2(MantissaBits) - 1)}

\* The payment amounts: 1.5, 2 and 4.
RoundedPayments == {Rat(3, 2), R(2), R(4)}

\* A call of generateAmortizationSchedule with arguments of the format.
InitRounding ==
    /\ variant \in Variants
    /\ inputs \in {InputsOf(0, 0, "amount", FALSE, loan) : loan \in RoundedLoans}
    /\ qual \in {[NoQualification EXCEPT !.totalMortgage = principal] :
                      principal \in RoundedPrincipals}
    /\ paymentAmount \in RoundedPayments
    /\ pc = "rounding"
    /\ run = "prepayment"
    /\ gen = GenStart(qual.totalMortgage)
    /\ standardSchedule = NoSchedule
    /\ schedule = NoSchedule
    /\ closing = NoClosing
    /\ results = NoResults
    /\ kinds = AllNumbers
    /\ mountResults = NoResults
    /\ events = 0

RoundedPaymentStep ==
    /\ pc = "rounding"
    /\ gen.at = "payment"
    /\ gen' = RoundedPaymentBody(RoundedArgs, gen)
    /\ UNCHANGED <<variant, inputs, pc, qual, paymentAmount, run, standardSchedule, schedule, closing, results, kinds, mountResults, events>>

RoundedYearEnd ==
    /\ pc = "rounding"
    /\ gen.at = "yearEnd"
    /\ gen' = RoundedYearEndBody(variant, RoundedArgs, gen)
    /\ UNCHANGED <<variant, inputs, pc, qual, paymentAmount, run, standardSchedule, schedule, closing, results, kinds, mountResults, events>>

NextRounding ==
    \/ RoundedPaymentStep
    \/ RoundedYearEnd

SpecRounding == InitRounding /\ [][NextRounding]_vars

\* ---------------------------------------------------------------------
\* C21: whenever calculateMortgage is about to run, the inputs it reads have
\* amortizationPeriod in 5..30, term in 1..10 and term <= amortizationPeriod
\* (so that the end-of-term snapshot is taken inside the schedule loop).
EngineStarts == pc = "inputs"

C21_TermWithinAmortization ==
    EngineStarts =>
        /\ inputs.amortizationPeriod \in AMORTIZATION_PERIODS
        /\ inputs.term \in TERM_LENGTHS
        /\ inputs.term <= inputs.amortizationPeriod

\* ---------------------------------------------------------------------
\* C22: the payment increase is flat.  Every payment applied to a positive
\* balance, in every year (year 1 included), pays towards principal, before
\* the extra payment, min(adjustedPayment - interest, balance) with the one
\* adjustedPayment = paymentAmount * (1 + paymentIncreasePercent / 100).
FlatAdjustedPayment ==
    XMul(Args.paymentAmount, RAdd(One, Percent(Args.paymentIncrease)), FactorScale)

PaymentApplied == PaymentStep /\ RIsFin(paymentAmount) /\ RGt(gen.balance, R(0))

InterestOfStep == RSub(gen'.yearlyInterestPaid, gen.yearlyInterestPaid)

RegularPrincipalOfStep ==
    RSub(RSub(gen'.yearlyPrincipalPaid, gen.yearlyPrincipalPaid),
         RSub(gen'.yearlyExtraPayments, gen.yearlyExtraPayments))

C22_PaymentIncreaseIsFlat ==
    [][PaymentApplied =>
          RegularPrincipalOfStep = RMin(RSub(FlatAdjustedPayment, InterestOfStep), gen.balance)]_vars

\* ---------------------------------------------------------------------
\* C23: in MortgageTS the land transfer tax of province ON is marginal: 0.5%
\* of the first 55000, 1% of the part in (55000, 250000], 1.5% of the part in
\* (250000, 400000] and 2% of the part above 400000, for every price (the
\* closing costs hold it after the first-time buyer rebate).
MarginalTieredTax(price) ==
    RAdd(RAdd(RMul(R(Slice(price, 0, 55000)), Rat(5, 1000)),
              RMul(R(Slice(price, 55000, 250000)), Rat(10, 1000))),
         RAdd(RMul(R(Slice(price, 250000, 400000)), Rat(15, 1000)),
              RMul(R(IF price > 400000 THEN price - 400000 ELSE 0), Rat(20, 1000))))

C23_TieredTaxIsMarginal ==
    (Closed /\ variant = "MortgageTS" /\ inputs.province = "ON") =>
        closing.landTransferTax.total =
            RSub(MarginalTieredTax(inputs.purchasePrice),
                 LandTransferTaxRebate(inputs.firstTimeBuyer,
                                       MarginalTieredTax(inputs.purchasePrice)))

\* ---------------------------------------------------------------------
\* C24: in a returned schedule the first row's startingBalance is the
\* original principal and every later row's startingBalance is the row
\* before's endingBalance.
RowsChain(principal, rows) ==
    \A j \in 1..Len(rows) :
        rows[j].startingBalance = IF j = 1 THEN principal ELSE rows[j - 1].endingBalance

C24_StartingBalanceChain ==
    Done => /\ RowsChain(ToMoney(qual.totalMortgage), standardSchedule.yearlySchedule)
            /\ RowsChain(ToMoney(qual.totalMortgage), schedule.yearlySchedule)

\* ---------------------------------------------------------------------
\* C25: totalInterestPaidOverTerm of the schedule with prepayments is the sum
\* of interestPaid of the rows with year <= term, also when the loan is paid
\* off before the last payment of year term; hence interestSavingsOverTerm is
\* at most the standard schedule's interest over the term minus that sum.
RECURSIVE InterestOfRows(_, _)
InterestOfRows(rows, years) ==
    IF rows = <<>> \/ Head(rows).year > years THEN R(0)
    ELSE RAdd(Head(rows).interestPaid, InterestOfRows(Tail(rows), years))

InterestPaidOverTerm == InterestOfRows(schedule.yearlySchedule, inputs.term)

C25_InterestOverTermOfEarlyPayoff ==
    (Done /\ RIsFin(paymentAmount)) =>
        /\ schedule.totalInterestPaidOverTerm = InterestPaidOverTerm
        /\ RLe(results.interestSavingsOverTerm,
               FromMoney(RSub(standardSchedule.totalInterestPaidOverTerm, InterestPaidOverTerm)))

\* ---------------------------------------------------------------------
\* C26: when the schedule has a row for year term, balanceAtEndOfTerm is that
\* row's endingBalance, also when an annual lump sum is applied in that year.
TermRowEndsAt(s, years) ==
    years <= Len(s.yearlySchedule) =>
        s.balanceAtEndOfTerm = s.yearlySchedule[years].endingBalance

C26_BalanceAtEndOfTermIsRowEnd ==
    (Done /\ RIsFin(paymentAmount)) =>
        /\ TermRowEndsAt(standardSchedule, inputs.term)
        /\ TermRowEndsAt(schedule, inputs.term)

\* ---------------------------------------------------------------------
\* C27: with principal >= 0 and a payment amount of at least the first
\* period's interest, the running balance stays within 0..principal after
\* every payment step and every lump-sum step of a schedule.
PaymentCoversInterest ==
    /\ pc = "rounding"
    /\ RGe(RoundedArgs.principal, R(0))
    /\ RGe(paymentAmount, FlMul(RoundedArgs.principal, RoundedArgs.interestRatePerPayment))

C27_BalanceWithinPrincipal ==
    PaymentCoversInterest =>
        RGe(gen.balance, R(0)) /\ RLe(gen.balance, RoundedArgs.principal)

\* ---------------------------------------------------------------------
\* C28: after the change handler of the province select has completed, the
\* inputs state holds the province selected and the first municipality
\* listed for it: the second call of handleInputChange does not lose the
\* update of the first.
C28_ProvinceChangeKeepsBothUpdates ==
    [][\A newProvince \in PROVINCES :
           ChangeProvinceTo(newProvince) =>
               /\ inputs'.province = newProvince
               /\ inputs'.municipality = FirstMunicipality(newProvince)]_vars

\* ---------------------------------------------------------------------
\* C29: after any sequence of form events province is one of the 13 province
\* codes, paymentFrequency one of the five frequency values and
\* downPaymentType 'amount' or 'percent', never ''; so the effect that
\* follows a change of one of these selects recalculates.
C29_SelectsHoldAnOption ==
    /\ inputs.province \in PROVINCES
    /\ inputs.paymentFrequency \in PAYMENT_FREQUENCIES
    /\ inputs.downPaymentType \in {"amount", "percent"}

\* ---------------------------------------------------------------------
\* C30: for every purchasePrice > 0 the loanToValue used for the insurance
\* is at most 95 (the 4.0% rate is never applied), and mortgageInsurance is
\* 0 for a foreign buyer and for every purchasePrice above 1000000.
C30_LoanToValueAtMost95 ==
    pc = "qualified" =>
        /\ inputs.purchasePrice > 0 =>
               RLe(RSub(R(100), qual.downPaymentPercent), R(95))
        /\ (inputs.foreignBuyer \/ inputs.purchasePrice > 1000000) =>
               qual.mortgageInsurance = R(0)

====
